---- MODULE Spec2Model ----
(***************************************************************************)
(* Model of the Personal Health SMS Bot (src/app.py): a Flask application  *)
(* with three routes (/, /trigger-daily-checkin, /android-webhook) that    *)
(* relays SMS through an Android HTTP endpoint and persists health log     *)
(* rows in the "HealthLog" Google Sheet.                                   *)
(*                                                                         *)
(* Text is modelled in two forms.  Text the code inspects character by     *)
(* character (an SMS body under strip, lower, the substring tests and the  *)
(* regular expression; a sheet cell under repr) is a sequence of           *)
(* characters.  A printable ASCII character, and each of \t \n \r \f, is   *)
(* the one-character string; every other character is the string          *)
(* "U+XXXX" of its code point.  The Unicode tables below cover U+0000 to   *)
(* U+024F, the combining marks U+0300 to U+030F, the Arabic-Indic digits,  *)
(* the Unicode spaces, the letterlike symbols U+2126 to U+212B and the     *)
(* fullwidth digits and letters.  Text the code only passes on (message    *)
(* texts, the sender) is a TLA+ string.  Python's None is the empty tuple  *)
(* and a present value x is the one-element tuple <<x>>.                   *)
(***************************************************************************)
EXTENDS Integers, Sequences, FiniteSets, TLC

VARIABLES
    GOOGLE_CREDENTIALS,  \* module global, app.py:37
    ANDROID_SEND_URL,    \* module global, app.py:38
    CRON_SECRET,         \* module global, app.py:39
    hasHeader,           \* whether row 1 of HealthLog.sheet1 is a header row
    rows,                \* the rows appended to HealthLog.sheet1, oldest first
    req,                 \* the request followed: the one received last
    resp,                \* the response returned for it, once it has returned
    sent,                \* calls of send_sms_via_android made while handling it
    calls,               \* Google Sheets API calls made while handling it,
                         \* each with whether it returned normally
    parsed,              \* results of parse_urgency_from_body while handling it
    pc,                  \* where the handler of req stands: "idle" once it has
                         \* returned, "sending" from its Google Sheets calls
                         \* until it returns
    frame,               \* while sending: the texts the handler is about to
                         \* send and the response it is about to return
    pin,                 \* input of the parsing harness
    pout                 \* output of the parsing harness

vars == <<GOOGLE_CREDENTIALS, ANDROID_SEND_URL, CRON_SECRET, hasHeader, rows,
          req, resp, sent, calls, parsed, pc, frame, pin, pout>>

-----------------------------------------------------------------------------
(* Bounds *)

\* longest body enumerated exhaustively by the parsing harness
MaxLen == 4

\* most entries the sheet holds in the states explored
MaxRows == 2

-----------------------------------------------------------------------------
(* Python values *)

None == <<>>

Some(x) == <<x>>

\* str.join of a sequence of one-character strings: the body as a string
RECURSIVE Str(_)
Str(cs) == IF cs = <<>> THEN "" ELSE Head(cs) \o Str(Tail(cs))

DigitChars == <<"0", "1", "2", "3", "4", "5", "6", "7", "8", "9">>

\* str(n) for an integer, as characters
RECURSIVE IntToChars(_)
IntToChars(n) ==
    IF n < 0 THEN <<"-">> \o IntToChars(0 - n)
    ELSE IF n < 10 THEN <<DigitChars[n + 1]>>
    ELSE Append(IntToChars(n \div 10), DigitChars[(n % 10) + 1])

\* str(n) for an integer
IntToStr(n) == Str(IntToChars(n))

DigitValue(c) == CHOOSE d \in 0..9 : DigitChars[d + 1] = c

\* int(s) for a sequence of ASCII digits
RECURSIVE StrToInt(_)
StrToInt(cs) ==
    IF cs = <<>> THEN 0
    ELSE 10 * StrToInt(SubSeq(cs, 1, Len(cs) - 1)) + DigitValue(cs[Len(cs)])

UpperChars == <<"A", "B", "C", "D", "E", "F", "G", "H", "I", "J", "K", "L", "M",
                "N", "O", "P", "Q", "R", "S", "T", "U", "V", "W", "X", "Y", "Z">>

LowerChars == <<"a", "b", "c", "d", "e", "f", "g", "h", "i", "j", "k", "l", "m",
                "n", "o", "p", "q", "r", "s", "t", "u", "v", "w", "x", "y", "z">>

\* a digit outside ASCII (ARABIC-INDIC DIGIT THREE): a word character that
\* [1-9] does not match
ArabicThree == "U+0663"

\* the characters str.isspace holds of: the ones str.strip removes
SpaceChars ==
    {" ", "\t", "\n", "\r", "\f"} \cup {
        "U+000B", "U+000C", "U+001C", "U+001D", "U+001E", "U+001F", "U+0085",
        "U+00A0", "U+1680", "U+2000", "U+2001", "U+2002", "U+2003", "U+2004",
        "U+2005", "U+2006", "U+2007", "U+2008", "U+2009", "U+200A", "U+2028",
        "U+2029", "U+202F", "U+205F", "U+3000" }

IsSpace(c) == c \in SpaceChars

\* the characters outside ASCII that \w of a Python 3 str pattern matches
UnicodeWordChars == {
        "U+00AA", "U+00B2", "U+00B3", "U+00B5", "U+00B9", "U+00BA", "U+00BC",
        "U+00BD", "U+00BE", "U+00C0", "U+00C1", "U+00C2", "U+00C3", "U+00C4",
        "U+00C5", "U+00C6", "U+00C7", "U+00C8", "U+00C9", "U+00CA", "U+00CB",
        "U+00CC", "U+00CD", "U+00CE", "U+00CF", "U+00D0", "U+00D1", "U+00D2",
        "U+00D3", "U+00D4", "U+00D5", "U+00D6", "U+00D8", "U+00D9", "U+00DA",
        "U+00DB", "U+00DC", "U+00DD", "U+00DE", "U+00DF", "U+00E0", "U+00E1",
        "U+00E2", "U+00E3", "U+00E4", "U+00E5", "U+00E6", "U+00E7", "U+00E8",
        "U+00E9", "U+00EA", "U+00EB", "U+00EC", "U+00ED", "U+00EE", "U+00EF",
        "U+00F0", "U+00F1", "U+00F2", "U+00F3", "U+00F4", "U+00F5", "U+00F6",
        "U+00F8", "U+00F9", "U+00FA", "U+00FB", "U+00FC", "U+00FD", "U+00FE",
        "U+00FF", "U+0100", "U+0101", "U+0102", "U+0103", "U+0104", "U+0105",
        "U+0106", "U+0107", "U+0108", "U+0109", "U+010A", "U+010B", "U+010C",
        "U+010D", "U+010E", "U+010F", "U+0110", "U+0111", "U+0112", "U+0113",
        "U+0114", "U+0115", "U+0116", "U+0117", "U+0118", "U+0119", "U+011A",
        "U+011B", "U+011C", "U+011D", "U+011E", "U+011F", "U+0120", "U+0121",
        "U+0122", "U+0123", "U+0124", "U+0125", "U+0126", "U+0127", "U+0128",
        "U+0129", "U+012A", "U+012B", "U+012C", "U+012D", "U+012E", "U+012F",
        "U+0130", "U+0131", "U+0132", "U+0133", "U+0134", "U+0135", "U+0136",
        "U+0137", "U+0138", "U+0139", "U+013A", "U+013B", "U+013C", "U+013D",
        "U+013E", "U+013F", "U+0140", "U+0141", "U+0142", "U+0143", "U+0144",
        "U+0145", "U+0146", "U+0147", "U+0148", "U+0149", "U+014A", "U+014B",
        "U+014C", "U+014D", "U+014E", "U+014F", "U+0150", "U+0151", "U+0152",
        "U+0153", "U+0154", "U+0155", "U+0156", "U+0157", "U+0158", "U+0159",
        "U+015A", "U+015B", "U+015C", "U+015D", "U+015E", "U+015F", "U+0160",
        "U+0161", "U+0162", "U+0163", "U+0164", "U+0165", "U+0166", "U+0167",
        "U+0168", "U+0169", "U+016A", "U+016B", "U+016C", "U+016D", "U+016E",
        "U+016F", "U+0170", "U+0171", "U+0172", "U+0173", "U+0174", "U+0175",
        "U+0176", "U+0177", "U+0178", "U+0179", "U+017A", "U+017B", "U+017C",
        "U+017D", "U+017E", "U+017F", "U+0180", "U+0181", "U+0182", "U+0183",
        "U+0184", "U+0185", "U+0186", "U+0187", "U+0188", "U+0189", "U+018A",
        "U+018B", "U+018C", "U+018D", "U+018E", "U+018F", "U+0190", "U+0191",
        "U+0192", "U+0193", "U+0194", "U+0195", "U+0196", "U+0197", "U+0198",
        "U+0199", "U+019A", "U+019B", "U+019C", "U+019D", "U+019E", "U+019F",
        "U+01A0", "U+01A1", "U+01A2", "U+01A3", "U+01A4", "U+01A5", "U+01A6",
        "U+01A7", "U+01A8", "U+01A9", "U+01AA", "U+01AB", "U+01AC", "U+01AD",
        "U+01AE", "U+01AF", "U+01B0", "U+01B1", "U+01B2", "U+01B3", "U+01B4",
        "U+01B5", "U+01B6", "U+01B7", "U+01B8", "U+01B9", "U+01BA", "U+01BB",
        "U+01BC", "U+01BD", "U+01BE", "U+01BF", "U+01C0", "U+01C1", "U+01C2",
        "U+01C3", "U+01C4", "U+01C5", "U+01C6", "U+01C7", "U+01C8", "U+01C9",
        "U+01CA", "U+01CB", "U+01CC", "U+01CD", "U+01CE", "U+01CF", "U+01D0",
        "U+01D1", "U+01D2", "U+01D3", "U+01D4", "U+01D5", "U+01D6", "U+01D7",
        "U+01D8", "U+01D9", "U+01DA", "U+01DB", "U+01DC", "U+01DD", "U+01DE",
        "U+01DF", "U+01E0", "U+01E1", "U+01E2", "U+01E3", "U+01E4", "U+01E5",
        "U+01E6", "U+01E7", "U+01E8", "U+01E9", "U+01EA", "U+01EB", "U+01EC",
        "U+01ED", "U+01EE", "U+01EF", "U+01F0", "U+01F1", "U+01F2", "U+01F3",
        "U+01F4", "U+01F5", "U+01F6", "U+01F7", "U+01F8", "U+01F9", "U+01FA",
        "U+01FB", "U+01FC", "U+01FD", "U+01FE", "U+01FF", "U+0200", "U+0201",
        "U+0202", "U+0203", "U+0204", "U+0205", "U+0206", "U+0207", "U+0208",
        "U+0209", "U+020A", "U+020B", "U+020C", "U+020D", "U+020E", "U+020F",
        "U+0210", "U+0211", "U+0212", "U+0213", "U+0214", "U+0215", "U+0216",
        "U+0217", "U+0218", "U+0219", "U+021A", "U+021B", "U+021C", "U+021D",
        "U+021E", "U+021F", "U+0220", "U+0221", "U+0222", "U+0223", "U+0224",
        "U+0225", "U+0226", "U+0227", "U+0228", "U+0229", "U+022A", "U+022B",
        "U+022C", "U+022D", "U+022E", "U+022F", "U+0230", "U+0231", "U+0232",
        "U+0233", "U+0234", "U+0235", "U+0236", "U+0237", "U+0238", "U+0239",
        "U+023A", "U+023B", "U+023C", "U+023D", "U+023E", "U+023F", "U+0240",
        "U+0241", "U+0242", "U+0243", "U+0244", "U+0245", "U+0246", "U+0247",
        "U+0248", "U+0249", "U+024A", "U+024B", "U+024C", "U+024D", "U+024E",
        "U+024F", "U+0660", "U+0661", "U+0662", "U+0663", "U+0664", "U+0665",
        "U+0666", "U+0667", "U+0668", "U+0669", "U+2126", "U+2128", "U+212A",
        "U+212B", "U+FF10", "U+FF11", "U+FF12", "U+FF13", "U+FF14", "U+FF15",
        "U+FF16", "U+FF17", "U+FF18", "U+FF19", "U+FF21", "U+FF22", "U+FF23",
        "U+FF24", "U+FF25", "U+FF26", "U+FF27", "U+FF28", "U+FF29", "U+FF2A",
        "U+FF2B", "U+FF2C", "U+FF2D", "U+FF2E", "U+FF2F", "U+FF30", "U+FF31",
        "U+FF32", "U+FF33", "U+FF34", "U+FF35", "U+FF36", "U+FF37", "U+FF38",
        "U+FF39", "U+FF3A", "U+FF41", "U+FF42", "U+FF43", "U+FF44", "U+FF45",
        "U+FF46", "U+FF47", "U+FF48", "U+FF49", "U+FF4A", "U+FF4B", "U+FF4C",
        "U+FF4D", "U+FF4E", "U+FF4F", "U+FF50", "U+FF51", "U+FF52", "U+FF53",
        "U+FF54", "U+FF55", "U+FF56", "U+FF57", "U+FF58", "U+FF59", "U+FF5A" }

\* \w of a Python 3 str pattern: every alphanumeric character and the
\* underscore
WordChars ==
    {UpperChars[i] : i \in 1..26} \cup {LowerChars[i] : i \in 1..26}
        \cup {DigitChars[i] : i \in 1..10} \cup {"_"} \cup UnicodeWordChars

IsWordChar(c) == c \in WordChars

\* the characters outside ASCII that str.lower changes, each with the
\* characters it becomes
UnicodeLowerPairs == {
        <<"U+00C0", <<"U+00E0">>>>, <<"U+00C1", <<"U+00E1">>>>,
        <<"U+00C2", <<"U+00E2">>>>, <<"U+00C3", <<"U+00E3">>>>,
        <<"U+00C4", <<"U+00E4">>>>, <<"U+00C5", <<"U+00E5">>>>,
        <<"U+00C6", <<"U+00E6">>>>, <<"U+00C7", <<"U+00E7">>>>,
        <<"U+00C8", <<"U+00E8">>>>, <<"U+00C9", <<"U+00E9">>>>,
        <<"U+00CA", <<"U+00EA">>>>, <<"U+00CB", <<"U+00EB">>>>,
        <<"U+00CC", <<"U+00EC">>>>, <<"U+00CD", <<"U+00ED">>>>,
        <<"U+00CE", <<"U+00EE">>>>, <<"U+00CF", <<"U+00EF">>>>,
        <<"U+00D0", <<"U+00F0">>>>, <<"U+00D1", <<"U+00F1">>>>,
        <<"U+00D2", <<"U+00F2">>>>, <<"U+00D3", <<"U+00F3">>>>,
        <<"U+00D4", <<"U+00F4">>>>, <<"U+00D5", <<"U+00F5">>>>,
        <<"U+00D6", <<"U+00F6">>>>, <<"U+00D8", <<"U+00F8">>>>,
        <<"U+00D9", <<"U+00F9">>>>, <<"U+00DA", <<"U+00FA">>>>,
        <<"U+00DB", <<"U+00FB">>>>, <<"U+00DC", <<"U+00FC">>>>,
        <<"U+00DD", <<"U+00FD">>>>, <<"U+00DE", <<"U+00FE">>>>,
        <<"U+0100", <<"U+0101">>>>, <<"U+0102", <<"U+0103">>>>,
        <<"U+0104", <<"U+0105">>>>, <<"U+0106", <<"U+0107">>>>,
        <<"U+0108", <<"U+0109">>>>, <<"U+010A", <<"U+010B">>>>,
        <<"U+010C", <<"U+010D">>>>, <<"U+010E", <<"U+010F">>>>,
        <<"U+0110", <<"U+0111">>>>, <<"U+0112", <<"U+0113">>>>,
        <<"U+0114", <<"U+0115">>>>, <<"U+0116", <<"U+0117">>>>,
        <<"U+0118", <<"U+0119">>>>, <<"U+011A", <<"U+011B">>>>,
        <<"U+011C", <<"U+011D">>>>, <<"U+011E", <<"U+011F">>>>,
        <<"U+0120", <<"U+0121">>>>, <<"U+0122", <<"U+0123">>>>,
        <<"U+0124", <<"U+0125">>>>, <<"U+0126", <<"U+0127">>>>,
        <<"U+0128", <<"U+0129">>>>, <<"U+012A", <<"U+012B">>>>,
        <<"U+012C", <<"U+012D">>>>, <<"U+012E", <<"U+012F">>>>,
        <<"U+0130", <<"i", "U+0307">>>>, <<"U+0132", <<"U+0133">>>>,
        <<"U+0134", <<"U+0135">>>>, <<"U+0136", <<"U+0137">>>>,
        <<"U+0139", <<"U+013A">>>>, <<"U+013B", <<"U+013C">>>>,
        <<"U+013D", <<"U+013E">>>>, <<"U+013F", <<"U+0140">>>>,
        <<"U+0141", <<"U+0142">>>>, <<"U+0143", <<"U+0144">>>>,
        <<"U+0145", <<"U+0146">>>>, <<"U+0147", <<"U+0148">>>>,
        <<"U+014A", <<"U+014B">>>>, <<"U+014C", <<"U+014D">>>>,
        <<"U+014E", <<"U+014F">>>>, <<"U+0150", <<"U+0151">>>>,
        <<"U+0152", <<"U+0153">>>>, <<"U+0154", <<"U+0155">>>>,
        <<"U+0156", <<"U+0157">>>>, <<"U+0158", <<"U+0159">>>>,
        <<"U+015A", <<"U+015B">>>>, <<"U+015C", <<"U+015D">>>>,
        <<"U+015E", <<"U+015F">>>>, <<"U+0160", <<"U+0161">>>>,
        <<"U+0162", <<"U+0163">>>>, <<"U+0164", <<"U+0165">>>>,
        <<"U+0166", <<"U+0167">>>>, <<"U+0168", <<"U+0169">>>>,
        <<"U+016A", <<"U+016B">>>>, <<"U+016C", <<"U+016D">>>>,
        <<"U+016E", <<"U+016F">>>>, <<"U+0170", <<"U+0171">>>>,
        <<"U+0172", <<"U+0173">>>>, <<"U+0174", <<"U+0175">>>>,
        <<"U+0176", <<"U+0177">>>>, <<"U+0178", <<"U+00FF">>>>,
        <<"U+0179", <<"U+017A">>>>, <<"U+017B", <<"U+017C">>>>,
        <<"U+017D", <<"U+017E">>>>, <<"U+0181", <<"U+0253">>>>,
        <<"U+0182", <<"U+0183">>>>, <<"U+0184", <<"U+0185">>>>,
        <<"U+0186", <<"U+0254">>>>, <<"U+0187", <<"U+0188">>>>,
        <<"U+0189", <<"U+0256">>>>, <<"U+018A", <<"U+0257">>>>,
        <<"U+018B", <<"U+018C">>>>, <<"U+018E", <<"U+01DD">>>>,
        <<"U+018F", <<"U+0259">>>>, <<"U+0190", <<"U+025B">>>>,
        <<"U+0191", <<"U+0192">>>>, <<"U+0193", <<"U+0260">>>>,
        <<"U+0194", <<"U+0263">>>>, <<"U+0196", <<"U+0269">>>>,
        <<"U+0197", <<"U+0268">>>>, <<"U+0198", <<"U+0199">>>>,
        <<"U+019C", <<"U+026F">>>>, <<"U+019D", <<"U+0272">>>>,
        <<"U+019F", <<"U+0275">>>>, <<"U+01A0", <<"U+01A1">>>>,
        <<"U+01A2", <<"U+01A3">>>>, <<"U+01A4", <<"U+01A5">>>>,
        <<"U+01A6", <<"U+0280">>>>, <<"U+01A7", <<"U+01A8">>>>,
        <<"U+01A9", <<"U+0283">>>>, <<"U+01AC", <<"U+01AD">>>>,
        <<"U+01AE", <<"U+0288">>>>, <<"U+01AF", <<"U+01B0">>>>,
        <<"U+01B1", <<"U+028A">>>>, <<"U+01B2", <<"U+028B">>>>,
        <<"U+01B3", <<"U+01B4">>>>, <<"U+01B5", <<"U+01B6">>>>,
        <<"U+01B7", <<"U+0292">>>>, <<"U+01B8", <<"U+01B9">>>>,
        <<"U+01BC", <<"U+01BD">>>>, <<"U+01C4", <<"U+01C6">>>>,
        <<"U+01C5", <<"U+01C6">>>>, <<"U+01C7", <<"U+01C9">>>>,
        <<"U+01C8", <<"U+01C9">>>>, <<"U+01CA", <<"U+01CC">>>>,
        <<"U+01CB", <<"U+01CC">>>>, <<"U+01CD", <<"U+01CE">>>>,
        <<"U+01CF", <<"U+01D0">>>>, <<"U+01D1", <<"U+01D2">>>>,
        <<"U+01D3", <<"U+01D4">>>>, <<"U+01D5", <<"U+01D6">>>>,
        <<"U+01D7", <<"U+01D8">>>>, <<"U+01D9", <<"U+01DA">>>>,
        <<"U+01DB", <<"U+01DC">>>>, <<"U+01DE", <<"U+01DF">>>>,
        <<"U+01E0", <<"U+01E1">>>>, <<"U+01E2", <<"U+01E3">>>>,
        <<"U+01E4", <<"U+01E5">>>>, <<"U+01E6", <<"U+01E7">>>>,
        <<"U+01E8", <<"U+01E9">>>>, <<"U+01EA", <<"U+01EB">>>>,
        <<"U+01EC", <<"U+01ED">>>>, <<"U+01EE", <<"U+01EF">>>>,
        <<"U+01F1", <<"U+01F3">>>>, <<"U+01F2", <<"U+01F3">>>>,
        <<"U+01F4", <<"U+01F5">>>>, <<"U+01F6", <<"U+0195">>>>,
        <<"U+01F7", <<"U+01BF">>>>, <<"U+01F8", <<"U+01F9">>>>,
        <<"U+01FA", <<"U+01FB">>>>, <<"U+01FC", <<"U+01FD">>>>,
        <<"U+01FE", <<"U+01FF">>>>, <<"U+0200", <<"U+0201">>>>,
        <<"U+0202", <<"U+0203">>>>, <<"U+0204", <<"U+0205">>>>,
        <<"U+0206", <<"U+0207">>>>, <<"U+0208", <<"U+0209">>>>,
        <<"U+020A", <<"U+020B">>>>, <<"U+020C", <<"U+020D">>>>,
        <<"U+020E", <<"U+020F">>>>, <<"U+0210", <<"U+0211">>>>,
        <<"U+0212", <<"U+0213">>>>, <<"U+0214", <<"U+0215">>>>,
        <<"U+0216", <<"U+0217">>>>, <<"U+0218", <<"U+0219">>>>,
        <<"U+021A", <<"U+021B">>>>, <<"U+021C", <<"U+021D">>>>,
        <<"U+021E", <<"U+021F">>>>, <<"U+0220", <<"U+019E">>>>,
        <<"U+0222", <<"U+0223">>>>, <<"U+0224", <<"U+0225">>>>,
        <<"U+0226", <<"U+0227">>>>, <<"U+0228", <<"U+0229">>>>,
        <<"U+022A", <<"U+022B">>>>, <<"U+022C", <<"U+022D">>>>,
        <<"U+022E", <<"U+022F">>>>, <<"U+0230", <<"U+0231">>>>,
        <<"U+0232", <<"U+0233">>>>, <<"U+023A", <<"U+2C65">>>>,
        <<"U+023B", <<"U+023C">>>>, <<"U+023D", <<"U+019A">>>>,
        <<"U+023E", <<"U+2C66">>>>, <<"U+0241", <<"U+0242">>>>,
        <<"U+0243", <<"U+0180">>>>, <<"U+0244", <<"U+0289">>>>,
        <<"U+0245", <<"U+028C">>>>, <<"U+0246", <<"U+0247">>>>,
        <<"U+0248", <<"U+0249">>>>, <<"U+024A", <<"U+024B">>>>,
        <<"U+024C", <<"U+024D">>>>, <<"U+024E", <<"U+024F">>>>,
        <<"U+2126", <<"U+03C9">>>>, <<"U+212A", <<"k">>>>,
        <<"U+212B", <<"U+00E5">>>>, <<"U+FF21", <<"U+FF41">>>>,
        <<"U+FF22", <<"U+FF42">>>>, <<"U+FF23", <<"U+FF43">>>>,
        <<"U+FF24", <<"U+FF44">>>>, <<"U+FF25", <<"U+FF45">>>>,
        <<"U+FF26", <<"U+FF46">>>>, <<"U+FF27", <<"U+FF47">>>>,
        <<"U+FF28", <<"U+FF48">>>>, <<"U+FF29", <<"U+FF49">>>>,
        <<"U+FF2A", <<"U+FF4A">>>>, <<"U+FF2B", <<"U+FF4B">>>>,
        <<"U+FF2C", <<"U+FF4C">>>>, <<"U+FF2D", <<"U+FF4D">>>>,
        <<"U+FF2E", <<"U+FF4E">>>>, <<"U+FF2F", <<"U+FF4F">>>>,
        <<"U+FF30", <<"U+FF50">>>>, <<"U+FF31", <<"U+FF51">>>>,
        <<"U+FF32", <<"U+FF52">>>>, <<"U+FF33", <<"U+FF53">>>>,
        <<"U+FF34", <<"U+FF54">>>>, <<"U+FF35", <<"U+FF55">>>>,
        <<"U+FF36", <<"U+FF56">>>>, <<"U+FF37", <<"U+FF57">>>>,
        <<"U+FF38", <<"U+FF58">>>>, <<"U+FF39", <<"U+FF59">>>>,
        <<"U+FF3A", <<"U+FF5A">>>> }

\* str.lower of one character, as a sequence of characters
LowerOf ==
    [u \in {UpperChars[i] : i \in 1..26} \cup {p[1] : p \in UnicodeLowerPairs}
        |-> IF \E i \in 1..26 : UpperChars[i] = u
            THEN <<LowerChars[CHOOSE i \in 1..26 : UpperChars[i] = u]>>
            ELSE (CHOOSE p \in UnicodeLowerPairs : p[1] = u)[2]]

LowerChar(c) == IF c \in DOMAIN LowerOf THEN LowerOf[c] ELSE <<c>>

\* str.lower
RECURSIVE lower(_)
lower(cs) ==
    IF cs = <<>> THEN <<>> ELSE LowerChar(Head(cs)) \o lower(Tail(cs))

\* str.strip: drop leading and trailing whitespace
RECURSIVE lstrip(_)
lstrip(cs) ==
    IF cs # <<>> /\ IsSpace(Head(cs)) THEN lstrip(Tail(cs)) ELSE cs

RECURSIVE rstrip(_)
rstrip(cs) ==
    IF cs # <<>> /\ IsSpace(cs[Len(cs)])
    THEN rstrip(SubSeq(cs, 1, Len(cs) - 1))
    ELSE cs

strip(cs) == rstrip(lstrip(cs))

\* the Python test  needle in hay  on strings
Contains(hay, needle) ==
    \E i \in 1..(Len(hay) - Len(needle) + 1) :
        SubSeq(hay, i, i + Len(needle) - 1) = needle

-----------------------------------------------------------------------------
(* parse_urgency_from_body: re.findall(r'\b([1-9]|10)\b', body) *)

WordAt(s, i) == i >= 1 /\ i <= Len(s) /\ IsWordChar(s[i])

\* \b between s[i-1] and s[i]
Boundary(s, i) == WordAt(s, i - 1) # WordAt(s, i)

\* MatchLenAt without the closing \b: the pattern \b([1-9]|10)
MatchLenAt_NoClosingBoundary(s, i) ==
    IF ~Boundary(s, i) THEN 0
    ELSE IF i <= Len(s)
            /\ s[i] \in {"1", "2", "3", "4", "5", "6", "7", "8", "9"}
         THEN 1
    ELSE 0

\* Length of the match of \b([1-9]|10)\b starting at i, 0 if none.  The
\* alternatives are tried in order: [1-9] first, 10 only if [1-9] followed
\* by \b fails.
MatchLenAt(s, i) ==
    IF ~Boundary(s, i) THEN 0
    ELSE IF /\ i <= Len(s)
            /\ s[i] \in {"1", "2", "3", "4", "5", "6", "7", "8", "9"}
            /\ Boundary(s, i + 1)
         THEN 1
    ELSE IF /\ i + 1 <= Len(s)
            /\ s[i] = "1"
            /\ s[i + 1] = "0"
            /\ Boundary(s, i + 2)
         THEN 2
    ELSE 0

\* re.findall: the groups of the non-overlapping matches, left to right
RECURSIVE findall(_, _)
findall(s, pos) ==
    IF pos > Len(s) THEN <<>>
    ELSE IF MatchLenAt(s, pos) > 0
         THEN <<SubSeq(s, pos, pos + MatchLenAt(s, pos) - 1)>>
                  \o findall(s, pos + MatchLenAt(s, pos))
         ELSE findall(s, pos + 1)

parse_urgency_from_body(body) ==
    LET matches == findall(body, 1)
    IN  IF matches # <<>> THEN Some(StrToInt(matches[1])) ELSE None

-----------------------------------------------------------------------------
(* The environment: clock, senders, bodies, secrets *)

\* values datetime.now() takes, as (date().isoformat(), strftime('%H:%M:%S'))
Timestamps ==
    { << <<"2", "0", "2", "4", "-", "0", "3", "-", "0", "1">>,
         <<"0", "8", ":", "1", "5", ":", "0", "0">> >> }

Senders == {"+15550100"}

B_link == <<"l", "i", "n", "k">>

B_summary == <<"s", "u", "m", "m", "a", "r", "y">>

\* message bodies delivered to /android-webhook
WebhookBodies ==
    { <<"L", "i", "n", "U+212A", " ", "5">>,
      <<"s", "u", "m", "m", "a", "r", "y", " ", "l", "i", "n", "k", " ", "7">>,
      <<" ", "S", "u", "m", "m", "a", "r", "y", " ", "3">>,
      <<"\f", "7", "U+00A0">>,
      <<"p", "a", "i", "n", " ", "1", "0">>,
      <<"a", "t", " ", "1", "0", "0">> }

\* A member of a JSON object: not there, null, a string or a number
Absent == <<"absent">>

Null == <<"null">>

JStr(v) == <<"str", v>>

JNum(n) == <<"num", n>>

\* request.json: a JSON object with its members sender and body, null, a
\* JSON string (text), a JSON list of strings (items), or, with type
\* "malformed", a request body that is not JSON
Payload(type, sender, body, text, items) ==
    [type |-> type, sender |-> sender, body |-> body, text |-> text,
     items |-> items]

Object(sender, body) == Payload("object", sender, body, <<>>, <<>>)

K_sender == <<"s", "e", "n", "d", "e", "r">>

K_body == <<"b", "o", "d", "y">>

Payloads ==
    { Object(JStr(s), JStr(b)) : s \in Senders, b \in WebhookBodies }
    \cup { Object(Absent, JStr(<<"L", "i", "n", "U+212A", " ", "5">>)),
           Object(JStr("+15550100"), Absent),
           Object(Absent, Absent),
           Object(Null, JStr(<<"\f", "7", "U+00A0">>)),
           Object(JNum(5), JStr(<<"\f", "7", "U+00A0">>)),
           Object(JStr("+15550100"), Null),
           Object(JStr("+15550100"), JNum(7)),
           Payload("null", Absent, Absent, <<>>, <<>>),
           Payload("string", Absent, Absent,
                   K_sender \o <<" ">> \o K_body, <<>>),
           Payload("list", Absent, Absent, <<>>, <<K_sender, K_body>>),
           Payload("malformed", Absent, Absent, <<>>, <<>>) }

\* Which Google Sheets call fails first during one request, if any.  A
\* handler makes the calls in the order authorize, open, then one of
\* get_all_values and append_row, and stops at the first failure.
StoreFaults == {"none", "authorize", "open", "get_all_values", "append_row"}

TheSecret == "s3cret"

\* request.args.get('secret'): None when the parameter is absent
ProvidedSecrets == {None, Some(TheSecret), Some("WRONG"), Some("")}

HeaderRow ==
    << <<"D", "a", "t", "e">>, <<"T", "i", "m", "e">>,
       <<"M", "e", "s", "s", "a", "g", "e">>,
       <<"U", "r", "g", "e", "n", "c", "y">> >>

SheetUrl == "https://docs.google.com/spreadsheets/d/HealthLog"

-----------------------------------------------------------------------------
(* send_sms_via_android *)

\* One call: the text and the boolean returned.  requests.get raises on a
\* missing URL, and raise_for_status on a failing relay; both give False.
send_sms_via_android(message_text, relayOk) ==
    [text |-> message_text, ok |-> (ANDROID_SEND_URL # None /\ relayOk)]

-----------------------------------------------------------------------------
(* Google Sheets *)

\* get_google_sheets_client: TRUE for a client, FALSE for None.
\* json.loads(None) raises before any API call is made.
get_google_sheets_client(authOk) == GOOGLE_CREDENTIALS # None /\ authOk

Call(api, ok) == [api |-> api, ok |-> ok]

\* the API calls get_google_sheets_client makes
client_calls(authOk) ==
    IF GOOGLE_CREDENTIALS # None THEN <<Call("authorize", authOk)>> ELSE <<>>

\* Worksheet.get_all_values: every row of the sheet, every cell as a string
get_all_values ==
    (IF hasHeader THEN <<HeaderRow>> ELSE <<>>)
        \o [i \in 1..Len(rows) |->
                <<rows[i][1], rows[i][2], rows[i][3], IntToChars(rows[i][4])>>]

\* the Python slice  xs[-n:]  for n > 0
LastN(xs, n) ==
    SubSeq(xs, IF Len(xs) > n THEN Len(xs) - n + 1 ELSE 1, Len(xs))

get_last_rows(readOk, num_rows) ==
    IF ~readOk THEN <<>>
    ELSE LET all_values == get_all_values
         IN  IF Len(all_values) <= 1 THEN <<>>
             ELSE IF Len(all_values) > 1 THEN LastN(all_values, num_rows)
             ELSE <<>>

\* append_to_google_sheets that inserts the row at the top of the sheet
append_to_google_sheets_Prepend(data, authOk, openOk, appendOk) ==
    IF ~get_google_sheets_client(authOk)
    THEN [success |-> FALSE, rows |-> rows, calls |-> client_calls(authOk)]
    ELSE IF ~openOk
    THEN [success |-> FALSE, rows |-> rows,
          calls |-> client_calls(authOk) \o <<Call("open", FALSE)>>]
    ELSE IF ~appendOk
    THEN [success |-> FALSE, rows |-> rows,
          calls |-> client_calls(authOk)
                        \o <<Call("open", TRUE), Call("append_row", FALSE)>>]
    ELSE [success |-> TRUE, rows |-> <<data>> \o rows,
          calls |-> client_calls(authOk)
                        \o <<Call("open", TRUE), Call("append_row", TRUE)>>]

\* append_to_google_sheets that returns True although append_row raised
append_to_google_sheets_SwallowsFailure(data, authOk, openOk, appendOk) ==
    IF ~get_google_sheets_client(authOk)
    THEN [success |-> FALSE, rows |-> rows, calls |-> client_calls(authOk)]
    ELSE IF ~openOk
    THEN [success |-> FALSE, rows |-> rows,
          calls |-> client_calls(authOk) \o <<Call("open", FALSE)>>]
    ELSE IF ~appendOk
    THEN [success |-> TRUE, rows |-> rows,
          calls |-> client_calls(authOk)
                        \o <<Call("open", TRUE), Call("append_row", FALSE)>>]
    ELSE [success |-> TRUE, rows |-> Append(rows, data),
          calls |-> client_calls(authOk)
                        \o <<Call("open", TRUE), Call("append_row", TRUE)>>]

\* append_to_google_sheets: the boolean returned, the sheet afterwards and
\* the API calls made
append_to_google_sheets(data, authOk, openOk, appendOk) ==
    IF ~get_google_sheets_client(authOk)
    THEN [success |-> FALSE, rows |-> rows, calls |-> client_calls(authOk)]
    ELSE IF ~openOk
    THEN [success |-> FALSE, rows |-> rows,
          calls |-> client_calls(authOk) \o <<Call("open", FALSE)>>]
    ELSE IF ~appendOk
    THEN [success |-> FALSE, rows |-> rows,
          calls |-> client_calls(authOk)
                        \o <<Call("open", TRUE), Call("append_row", FALSE)>>]
    ELSE [success |-> TRUE, rows |-> Append(rows, data),
          calls |-> client_calls(authOk)
                        \o <<Call("open", TRUE), Call("append_row", TRUE)>>]

-----------------------------------------------------------------------------
(* Responses and message texts *)

\* jsonify({key: value}) with HTTP status code; urgency is the extra
\* 'urgency' member of the logged response and message the extra 'message'
\* member of the liveness response.  key "text" is a plain body.
Response(code, key, value, urgency) ==
    [code |-> code, key |-> key, value |-> value, urgency |-> urgency,
     message |-> None]

RECURSIVE Join(_, _)
Join(lines, sep) ==
    IF lines = <<>> THEN ""
    ELSE IF Len(lines) = 1 THEN lines[1]
    ELSE lines[1] \o sep \o Join(Tail(lines), sep)

\* the characters repr writes as a hexadecimal escape
UnicodeReprPairs == {
        <<"U+0000", "\\x00">>, <<"U+0001", "\\x01">>, <<"U+0002", "\\x02">>,
        <<"U+0003", "\\x03">>, <<"U+0004", "\\x04">>, <<"U+0005", "\\x05">>,
        <<"U+0006", "\\x06">>, <<"U+0007", "\\x07">>, <<"U+0008", "\\x08">>,
        <<"U+000B", "\\x0b">>, <<"U+000C", "\\x0c">>, <<"U+000E", "\\x0e">>,
        <<"U+000F", "\\x0f">>, <<"U+0010", "\\x10">>, <<"U+0011", "\\x11">>,
        <<"U+0012", "\\x12">>, <<"U+0013", "\\x13">>, <<"U+0014", "\\x14">>,
        <<"U+0015", "\\x15">>, <<"U+0016", "\\x16">>, <<"U+0017", "\\x17">>,
        <<"U+0018", "\\x18">>, <<"U+0019", "\\x19">>, <<"U+001A", "\\x1a">>,
        <<"U+001B", "\\x1b">>, <<"U+001C", "\\x1c">>, <<"U+001D", "\\x1d">>,
        <<"U+001E", "\\x1e">>, <<"U+001F", "\\x1f">>, <<"U+007F", "\\x7f">>,
        <<"U+0080", "\\x80">>, <<"U+0081", "\\x81">>, <<"U+0082", "\\x82">>,
        <<"U+0083", "\\x83">>, <<"U+0084", "\\x84">>, <<"U+0085", "\\x85">>,
        <<"U+0086", "\\x86">>, <<"U+0087", "\\x87">>, <<"U+0088", "\\x88">>,
        <<"U+0089", "\\x89">>, <<"U+008A", "\\x8a">>, <<"U+008B", "\\x8b">>,
        <<"U+008C", "\\x8c">>, <<"U+008D", "\\x8d">>, <<"U+008E", "\\x8e">>,
        <<"U+008F", "\\x8f">>, <<"U+0090", "\\x90">>, <<"U+0091", "\\x91">>,
        <<"U+0092", "\\x92">>, <<"U+0093", "\\x93">>, <<"U+0094", "\\x94">>,
        <<"U+0095", "\\x95">>, <<"U+0096", "\\x96">>, <<"U+0097", "\\x97">>,
        <<"U+0098", "\\x98">>, <<"U+0099", "\\x99">>, <<"U+009A", "\\x9a">>,
        <<"U+009B", "\\x9b">>, <<"U+009C", "\\x9c">>, <<"U+009D", "\\x9d">>,
        <<"U+009E", "\\x9e">>, <<"U+009F", "\\x9f">>, <<"U+00A0", "\\xa0">>,
        <<"U+00AD", "\\xad">>, <<"U+1680", "\\u1680">>,
        <<"U+2000", "\\u2000">>, <<"U+2001", "\\u2001">>,
        <<"U+2002", "\\u2002">>, <<"U+2003", "\\u2003">>,
        <<"U+2004", "\\u2004">>, <<"U+2005", "\\u2005">>,
        <<"U+2006", "\\u2006">>, <<"U+2007", "\\u2007">>,
        <<"U+2008", "\\u2008">>, <<"U+2009", "\\u2009">>,
        <<"U+200A", "\\u200a">>, <<"U+2028", "\\u2028">>,
        <<"U+2029", "\\u2029">>, <<"U+202F", "\\u202f">>,
        <<"U+205F", "\\u205f">>, <<"U+3000", "\\u3000">> }

ReprEscapeOf == [c \in {p[1] : p \in UnicodeReprPairs} |->
                    (CHOOSE p \in UnicodeReprPairs : p[1] = c)[2]]

\* one character of a string inside repr, quoted with the character quote
ReprChar(c, quote) ==
    IF c = "\\" THEN "\\\\"
    ELSE IF c = quote THEN "\\" \o c
    ELSE IF c = "\t" THEN "\\t"
    ELSE IF c = "\n" THEN "\\n"
    ELSE IF c = "\r" THEN "\\r"
    ELSE IF c = "\f" THEN "\\x0c"
    ELSE IF c \in DOMAIN ReprEscapeOf THEN ReprEscapeOf[c]
    ELSE c

RECURSIVE ReprChars(_, _)
ReprChars(cs, quote) ==
    IF cs = <<>> THEN ""
    ELSE ReprChar(Head(cs), quote) \o ReprChars(Tail(cs), quote)

\* repr of a str: double quotes when it holds ' and no ", else single
PyReprStr(cs) ==
    LET quote == IF (\E i \in 1..Len(cs) : cs[i] = "'")
                       /\ ~(\E i \in 1..Len(cs) : cs[i] = "\"")
                 THEN "\"" ELSE "'"
    IN  quote \o ReprChars(cs, quote) \o quote

\* str(row) for a list of strings
PyRepr(row) ==
    "[" \o Join([i \in 1..Len(row) |-> PyReprStr(row[i])], ", ") \o "]"

summary_line(i, row) ==
    IF Len(row) >= 4
    THEN IntToStr(i) \o ". " \o Str(row[1]) \o " " \o Str(row[2])
             \o " - Urgency: " \o Str(row[4])
    ELSE IntToStr(i) \o ". " \o PyRepr(row)

summary_text(last_rows) ==
    "Last 3 entries:\n"
        \o Join([i \in 1..Len(last_rows) |-> summary_line(i, last_rows[i])],
                "\n")

MsgLinkFailed == "Failed to retrieve sheet link."

MsgSummaryFailed == "Failed to retrieve summary."

MsgNoEntries == "No entries found in Health Log."

MsgNoUrgency == "Please include a urgency rating (1-10) in your message."

MsgCheckin == "How were your symptoms today? Rate urgency (1-10) and describe."

\* a sender inside an f-string: str(None) is "None", str(5) is "5"
FormatSender(sender) ==
    IF sender = Null THEN "None"
    ELSE IF sender[1] = "num" THEN IntToStr(sender[2])
    ELSE sender[2]

MsgLogged(sender) == "Logged for " \o FormatSender(sender) \o ". (U+2705)"

MsgLogFailed(sender) ==
    "Failed to log entry for " \o FormatSender(sender) \o ". (U+274C)"

-----------------------------------------------------------------------------
(* Route /trigger-daily-checkin *)

\* secret_mismatch that lets a request without the parameter through
secret_mismatch_IfProvided(provided_secret) ==
    provided_secret # None /\ provided_secret # CRON_SECRET

\* the test  provided_secret != CRON_SECRET
secret_mismatch(provided_secret) == provided_secret # CRON_SECRET

trigger_daily_checkin(provided_secret, relayOk) ==
    IF secret_mismatch(provided_secret)
    THEN [resp |-> Response(401, "error", "Unauthorized", None),
          sent |-> <<>>]
    ELSE LET sms == send_sms_via_android(MsgCheckin, relayOk)
         IN  IF sms.ok
             THEN [resp |-> Response(200, "text", "Triggered", None),
                   sent |-> <<sms>>]
             ELSE [resp |-> Response(500, "error", "Failed to send SMS", None),
                   sent |-> <<sms>>]

-----------------------------------------------------------------------------
(* Route /android-webhook *)

\* the truth value of data
truthy(data) ==
    IF data.type = "null" THEN FALSE
    ELSE IF data.type = "string" THEN data.text # <<>>
    ELSE IF data.type = "list" THEN data.items # <<>>
    ELSE data.sender # Absent \/ data.body # Absent

\* the test  key in data : a key of an object, a substring of a string, an
\* element of a list
has_key(data, key) ==
    IF data.type = "string" THEN Contains(data.text, key)
    ELSE IF data.type = "list"
    THEN \E i \in 1..Len(data.items) : data.items[i] = key
    ELSE IF key = K_sender THEN data.sender # Absent
    ELSE data.body # Absent

\* invalid_payload that forgets to look for the sender
invalid_payload_BodyOnly(data) == ~truthy(data) \/ ~has_key(data, K_body)

\* the test  not data or 'sender' not in data or 'body' not in data
invalid_payload(data) ==
    \/ ~truthy(data)
    \/ ~has_key(data, K_sender)
    \/ ~has_key(data, K_body)

\* classify with the summary test ahead of the link test
classify_SummaryFirst(body_lower) ==
    IF Contains(body_lower, B_summary) THEN "summary"
    ELSE IF Contains(body_lower, B_link) THEN "link"
    ELSE "data"

\* the if / elif / else chain over body_lower
classify(body_lower) ==
    IF Contains(body_lower, B_link) THEN "link"
    ELSE IF Contains(body_lower, B_summary) THEN "summary"
    ELSE "data"

\* the text sent by the link branch and the API calls it makes
link_branch(authOk, openOk) ==
    IF get_google_sheets_client(authOk)
    THEN IF openOk
         THEN [text |-> "Health Log Link: " \o SheetUrl,
               calls |-> client_calls(authOk) \o <<Call("open", TRUE)>>]
         ELSE [text |-> MsgLinkFailed,
               calls |-> client_calls(authOk) \o <<Call("open", FALSE)>>]
    ELSE [text |-> MsgLinkFailed, calls |-> client_calls(authOk)]

\* the text sent by the summary branch and the API calls it makes
summary_branch(authOk, openOk, readOk) ==
    IF get_google_sheets_client(authOk)
    THEN IF openOk
         THEN LET last_rows == get_last_rows(readOk, 3)
              IN  [text |-> IF last_rows # <<>>
                            THEN summary_text(last_rows)
                            ELSE MsgNoEntries,
                   calls |-> client_calls(authOk)
                                 \o <<Call("open", TRUE),
                                      Call("get_all_values", readOk)>>]
         ELSE [text |-> MsgSummaryFailed,
               calls |-> client_calls(authOk) \o <<Call("open", FALSE)>>]
    ELSE [text |-> MsgSummaryFailed, calls |-> client_calls(authOk)]

\* row_data with the date and the time in each other's place
row_data_TimeFirst(now, body, urgency) == <<now[2], now[1], body, urgency>>

\* row_data of the data-entry branch
row_data(now, body, urgency) == <<now[1], now[2], body, urgency>>

\* the guard  urgency is not None  of the data-entry branch
urgency_found(urgency) == urgency # None

\* the outcome of the handler's outer except branch
internal_server_error ==
    [resp |-> Response(500, "error", "Internal server error", None),
     texts |-> <<>>, calls |-> <<>>, parsed |-> <<>>, rows |-> rows]

\* android_webhook up to its calls of send_sms_via_android: the response it
\* is going to return, the texts it is going to send, the Google Sheets
\* calls made, the results of parsing and the sheet afterwards.  No branch
\* looks at what send_sms_via_android returns.
android_webhook_store(data, now, authOk, openOk, readOk, appendOk) ==
    \* request.json raises on a body that is not JSON
    IF data.type = "malformed" THEN internal_server_error
    ELSE IF invalid_payload(data)
    THEN [resp |-> Response(400, "error", "Invalid payload", None),
          texts |-> <<>>, calls |-> <<>>, parsed |-> <<>>, rows |-> rows]
    \* data['sender'] raises on a string and on a list
    ELSE IF data.type # "object" THEN internal_server_error
    \* data['body'].strip() raises unless the body is a string
    ELSE IF data.body[1] # "str" THEN internal_server_error
    ELSE
    LET sender == data.sender
        body == strip(data.body[2])
        body_lower == lower(body)
        branch == classify(body_lower)
    IN  IF branch = "link"
        THEN LET b == link_branch(authOk, openOk)
             IN  [resp |-> Response(200, "status", "link sent", None),
                  texts |-> <<b.text>>,
                  calls |-> b.calls, parsed |-> <<>>, rows |-> rows]
        ELSE IF branch = "summary"
        THEN LET b == summary_branch(authOk, openOk, readOk)
             IN  [resp |-> Response(200, "status", "summary sent", None),
                  texts |-> <<b.text>>,
                  calls |-> b.calls, parsed |-> <<>>, rows |-> rows]
        ELSE
        LET urgency == parse_urgency_from_body(body)
        IN  IF urgency_found(urgency)
            THEN LET a == append_to_google_sheets(
                              row_data(now, body, urgency[1]),
                              authOk, openOk, appendOk)
                 IN  IF a.success
                     THEN [resp |-> Response(200, "status", "logged", urgency),
                           texts |-> <<MsgLogged(sender)>>,
                           calls |-> a.calls, parsed |-> <<urgency>>,
                           rows |-> a.rows]
                     ELSE [resp |-> Response(500, "error",
                                             "Failed to log entry", None),
                           texts |-> <<MsgLogFailed(sender)>>,
                           calls |-> a.calls, parsed |-> <<urgency>>,
                           rows |-> a.rows]
            ELSE [resp |-> Response(200, "status", "no urgency found", None),
                  texts |-> <<MsgNoUrgency>>,
                  calls |-> <<>>, parsed |-> <<urgency>>, rows |-> rows]

\* the calls of send_sms_via_android that end the handler
send_all(texts, relayOk) ==
    [i \in 1..Len(texts) |-> send_sms_via_android(texts[i], relayOk)]

\* the whole handler, run with no other request in between
android_webhook(data, now, authOk, openOk, readOk, appendOk, relayOk) ==
    LET h == android_webhook_store(data, now, authOk, openOk, readOk, appendOk)
    IN  [resp |-> h.resp, sent |-> send_all(h.texts, relayOk),
         calls |-> h.calls, parsed |-> h.parsed, rows |-> h.rows]

-----------------------------------------------------------------------------
(* Route / *)

index ==
    [Response(200, "status", "ok", None)
        EXCEPT !.message = Some("Personal Health SMS Bot is running")]

-----------------------------------------------------------------------------
(* The application as a state machine.                                     *)
(*                                                                         *)
(* app.run serves every request on a thread of its own, and a handler      *)
(* blocks in its network calls.  The requests meet in one place only, the  *)
(* sheet: a handler makes at most one call that reads or writes its rows   *)
(* (get_all_values or append_row), and that call is where its step         *)
(* AndroidWebhookStore happens; it returns, after its call of the relay,   *)
(* in the step AndroidWebhookRespond.  One request at a time is followed   *)
(* through both steps, in req, calls, parsed, frame, sent and resp.  The   *)
(* requests other threads handle meanwhile are the steps                   *)
(* AndroidWebhookConcurrent: each is a whole handler run, seen through     *)
(* what it does to the sheet; what it is answered is what the behaviours   *)
(* following it show.  The other two routes touch neither the sheet nor    *)
(* any state shared between requests and are one step each.                *)

NoPayload == Payload("none", Absent, Absent, <<>>, <<>>)

NoRequest == [route |-> "none", data |-> NoPayload, secret |-> None]

NoResponse == Response(0, "none", "none", None)

NoFrame == [resp |-> NoResponse, texts |-> <<>>]

Configs == [creds : {None, Some("service-account-json")},
            url : {None, Some("https://relay.example/send")},
            secret : {None, Some(TheSecret)}]

Init ==
    /\ \E c \in Configs :
        /\ GOOGLE_CREDENTIALS = c.creds
        /\ ANDROID_SEND_URL = c.url
        /\ CRON_SECRET = c.secret
    /\ hasHeader \in BOOLEAN
    /\ rows = <<>>
    /\ req = NoRequest
    /\ resp = NoResponse
    /\ sent = <<>>
    /\ calls = <<>>
    /\ parsed = <<>>
    /\ pc = "idle"
    /\ frame = NoFrame
    /\ pin = <<>>
    /\ pout = <<>>

Config == <<GOOGLE_CREDENTIALS, ANDROID_SEND_URL, CRON_SECRET, hasHeader>>

Index ==
    /\ pc = "idle"
    /\ req' = [NoRequest EXCEPT !.route = "index"]
    /\ resp' = index
    /\ sent' = <<>>
    /\ calls' = <<>>
    /\ parsed' = <<>>
    /\ UNCHANGED <<Config, rows, pc, frame, pin, pout>>

TriggerDailyCheckin ==
    /\ pc = "idle"
    /\ \E provided_secret \in ProvidedSecrets, relayOk \in BOOLEAN :
        \E out \in {trigger_daily_checkin(provided_secret, relayOk)} :
            /\ req' = [NoRequest EXCEPT !.route = "trigger",
                                        !.secret = provided_secret]
            /\ resp' = out.resp
            /\ sent' = out.sent
            /\ calls' = <<>>
            /\ parsed' = <<>>
            /\ UNCHANGED <<Config, rows, pc, frame, pin, pout>>

\* A request arrives and its handler runs up to its call of the relay.
\* Requests that would take the sheet beyond MaxRows entries are left out
\* of the search.
AndroidWebhookStore ==
    /\ pc = "idle"
    /\ \E data \in Payloads, now \in Timestamps, fault \in StoreFaults :
        \E h \in {android_webhook_store(data, now,
                                        fault # "authorize", fault # "open",
                                        fault # "get_all_values",
                                        fault # "append_row")} :
            /\ Len(h.rows) <= MaxRows
            /\ req' = [NoRequest EXCEPT !.route = "webhook", !.data = data]
            /\ resp' = NoResponse
            /\ sent' = <<>>
            /\ calls' = h.calls
            /\ parsed' = h.parsed
            /\ rows' = h.rows
            /\ frame' = [resp |-> h.resp, texts |-> h.texts]
            /\ pc' = "sending"
            /\ UNCHANGED <<Config, pin, pout>>

\* The handler of req calls the relay and returns.
AndroidWebhookRespond ==
    /\ pc = "sending"
    /\ \E relayOk \in BOOLEAN :
        /\ sent' = send_all(frame.texts, relayOk)
        /\ resp' = frame.resp
        /\ frame' = NoFrame
        /\ pc' = "idle"
        /\ UNCHANGED <<Config, rows, req, calls, parsed, pin, pout>>

\* Another thread handles a request while the handler of req has not
\* returned.
AndroidWebhookConcurrent ==
    /\ pc = "sending"
    /\ \E data \in Payloads, now \in Timestamps, fault \in StoreFaults,
          relayOk \in BOOLEAN :
        \E out \in {android_webhook(data, now,
                                     fault # "authorize", fault # "open",
                                     fault # "get_all_values",
                                     fault # "append_row", relayOk)} :
            /\ Len(out.rows) <= MaxRows
            /\ rows' = out.rows
            /\ UNCHANGED <<Config, req, resp, sent, calls, parsed, pc, frame,
                           pin, pout>>

Next ==
    \/ Index
    \/ TriggerDailyCheckin
    \/ AndroidWebhookStore
    \/ AndroidWebhookRespond
    \/ AndroidWebhookConcurrent

Spec == Init /\ [][Next]_vars

-----------------------------------------------------------------------------
(* Harness for parse_urgency_from_body: the function applied to one body *)

ParseAlphabet == {"0", "1", "7", "a", " ", "-", "U+00E9"}

RECURSIVE StringsUpTo(_)
StringsUpTo(n) ==
    IF n = 0 THEN {<<>>}
    ELSE LET shorter == StringsUpTo(n - 1)
         IN  shorter \cup {Append(s, c) : s \in shorter, c \in ParseAlphabet}

P_abc10def5 == <<"a", "b", "c", " ", "1", "0", " ", "d", "e", "f", " ", "5">>

P_callmeat100 ==
    <<"c", "a", "l", "l", " ", "m", "e", " ", "a", "t", " ", "1", "0", "0">>

P_a1b == <<"a", "1", "b">>

P_zero == <<"0">>

P_ten == <<"1", "0">>

ParseBodies ==
    StringsUpTo(MaxLen)
        \cup {P_abc10def5, P_callmeat100, P_a1b, P_zero, P_ten,
              <<ArabicThree, "1", " ", "2">>, <<"3", ".", "5">>,
              <<"U+00B2", "5">>, <<"5", "U+FF15">>, <<"\f", "7">>,
              <<"1", "1", " ", "1", "0", ",", "8">>}

InitParse ==
    /\ GOOGLE_CREDENTIALS = None
    /\ ANDROID_SEND_URL = None
    /\ CRON_SECRET = None
    /\ hasHeader = TRUE
    /\ rows = <<>>
    /\ req = NoRequest
    /\ resp = NoResponse
    /\ sent = <<>>
    /\ calls = <<>>
    /\ parsed = <<>>
    /\ pc = "idle"
    /\ frame = NoFrame
    /\ pin \in ParseBodies
    /\ pout = <<>>

ParseStep ==
    /\ pout = <<>>
    /\ pout' = <<parse_urgency_from_body(pin)>>
    /\ UNCHANGED <<Config, rows, req, resp, sent, calls, parsed, pc, frame,
                   pin>>

SpecParse == InitParse /\ [][ParseStep]_vars

-----------------------------------------------------------------------------
(* C8 *)

\* the decimal numeral of n in 1..10
Numeral(n) == IF n = 10 THEN <<"1", "0">> ELSE <<DigitChars[n + 1]>>

\* the numeral of n stands at position i of s with no word character
\* directly before or after it
StandaloneAt(s, i, n) ==
    LET j == i + Len(Numeral(n)) - 1
    IN  /\ j <= Len(s)
        /\ SubSeq(s, i, j) = Numeral(n)
        /\ (i = 1 \/ ~IsWordChar(s[i - 1]))
        /\ (j = Len(s) \/ ~IsWordChar(s[j + 1]))

HasToken(s) == \E i \in 1..Len(s), n \in 1..10 : StandaloneAt(s, i, n)

IsLeftmostToken(s, n) ==
    \E i \in 1..Len(s) :
        /\ StandaloneAt(s, i, n)
        /\ \A k \in 1..(i - 1), m \in 1..10 : ~StandaloneAt(s, k, m)

\* C8: urgency parsing returns the value of the leftmost standalone token
\* that is a whole number from 1 to 10, and None when the body has none;
\* "abc 10 def 5" gives 10, "call me at 100", "a1b" and "0" give None and
\* "10" gives 10.
C8_ParseLeftmostToken ==
    pout # <<>> =>
        /\ HasToken(pin) =>
              /\ pout[1] # None
              /\ pout[1][1] \in 1..10
              /\ IsLeftmostToken(pin, pout[1][1])
        /\ ~HasToken(pin) => pout[1] = None
        /\ pin = P_abc10def5 => pout[1] = Some(10)
        /\ pin = P_callmeat100 => pout[1] = None
        /\ pin = P_a1b => pout[1] = None
        /\ pin = P_zero => pout[1] = None
        /\ pin = P_ten => pout[1] = Some(10)

\* "abc 10 def 5" has been parsed and gave 10
C8_Witness == pin = P_abc10def5 /\ pout = <<Some(10)>>

-----------------------------------------------------------------------------
(* The request followed, as the claims speak of it *)

\* the handler of req has returned
Answered == pc = "idle"

\* the step in which the handler of the request followed makes its Google
\* Sheets calls
StoreStep == pc = "idle" /\ pc' = "sending"

\* the step in which it sends and returns
RespondStep == pc = "sending" /\ pc' = "idle"

WebhookHandled == req.route = "webhook"

\* the payload is a JSON object that lacks sender or body, or is null
PayloadIncomplete ==
    \/ req.data.type = "null"
    \/ /\ req.data.type = "object"
       /\ (req.data.sender = Absent \/ req.data.body = Absent)

\* the payload is a JSON object with a sender and a body that is text
PayloadComplete ==
    /\ req.data.type = "object"
    /\ req.data.sender # Absent
    /\ req.data.body[1] = "str"

\* the lowercased trimmed body of a complete payload
ReqBodyLower == lower(strip(req.data.body[2]))

MentionsLink == Contains(ReqBodyLower, <<"l", "i", "n", "k">>)

MentionsSummary ==
    Contains(ReqBodyLower, <<"s", "u", "m", "m", "a", "r", "y">>)

LinkRequest == WebhookHandled /\ PayloadComplete /\ MentionsLink

SummaryRequest ==
    WebhookHandled /\ PayloadComplete /\ MentionsSummary /\ ~MentionsLink

DataEntryRequest ==
    WebhookHandled /\ PayloadComplete /\ ~MentionsLink /\ ~MentionsSummary

\* every Google Sheets call of the request went through, and there was one
StoreWorked == calls # <<>> /\ \A i \in 1..Len(calls) : calls[i].ok

\* the store could not be used: the credentials were missing or a call failed
StoreFailed ==
    \/ (calls = <<>> /\ GOOGLE_CREDENTIALS = None)
    \/ \E i \in 1..Len(calls) : ~calls[i].ok

CallCount(api) == Cardinality({i \in 1..Len(calls) : calls[i].api = api})

SentTexts == [i \in 1..Len(sent) |-> sent[i].text]

\* the sender as the acknowledgement names it
SenderText ==
    IF req.data.sender = Null THEN "None"
    ELSE IF req.data.sender[1] = "num"
    THEN Str(IntToChars(req.data.sender[2]))
    ELSE req.data.sender[2]

-----------------------------------------------------------------------------
(* C1 *)

\* the summary of the entries es as the specification words it
RECURSIVE EntryLines(_, _)
EntryLines(es, i) ==
    IF i > Len(es) THEN ""
    ELSE (IF i > 1 THEN "\n" ELSE "")
             \o IntToStr(i) \o ". " \o Str(es[i][1]) \o " " \o Str(es[i][2])
             \o " - Urgency: " \o IntToStr(es[i][4])
             \o EntryLines(es, i + 1)

\* C1: a summary request that reads, from a working store, a sheet with a
\* header row and k < 3 entries is going to send exactly those k entries,
\* oldest first, numbered 1..k, and no header row; with k = 0 it is going
\* to send the no-entries notice; the response is always 'summary sent'.
C1_SummaryListsExactlyTheEntries ==
    [][(StoreStep /\ SummaryRequest' /\ StoreWorked' /\ hasHeader
            /\ Len(rows) < 3) =>
           /\ frame'.resp = Response(200, "status", "summary sent", None)
           /\ frame'.texts = <<IF rows = <<>> THEN MsgNoEntries
                               ELSE "Last 3 entries:\n"
                                        \o EntryLines(rows, 1)>>]_vars

-----------------------------------------------------------------------------
(* C2 *)

\* C2: a trigger request whose secret parameter (None when absent) differs
\* from the configured secret is answered 401 Unauthorized, with no SMS
\* send attempt and no store access.
C2_WrongSecretUnauthorized ==
    (req.route = "trigger" /\ req.secret # CRON_SECRET) =>
        /\ resp = Response(401, "error", "Unauthorized", None)
        /\ sent = <<>>
        /\ calls = <<>>

\* a wrong secret was refused although the relay and the secret are set up
C2_Witness ==
    /\ req.route = "trigger"
    /\ req.secret = Some("WRONG")
    /\ CRON_SECRET = Some(TheSecret)
    /\ ANDROID_SEND_URL # None
    /\ resp.code = 401

-----------------------------------------------------------------------------
(* C3 *)

\* C3: with the credentials missing every store append fails, with the
\* relay URL missing every SMS send fails, and with the cron secret missing
\* every trigger request fails and sends no SMS.
C3_MissingConfigFailsTheOperation ==
    /\ (GOOGLE_CREDENTIALS = None /\ Answered /\ DataEntryRequest
            /\ parsed # <<>> /\ parsed[1] # None) =>
           (resp.code = 500 /\ rows = <<>>)
    /\ ANDROID_SEND_URL = None => \A i \in 1..Len(sent) : ~sent[i].ok
    /\ (CRON_SECRET = None /\ req.route = "trigger") =>
           (resp.code # 200 /\ \A i \in 1..Len(sent) : ~sent[i].ok)

-----------------------------------------------------------------------------
(* C4 *)

\* C4: when the store cannot be used during a link or a summary request,
\* the one SMS sent is the failure notice of that branch and the response
\* is still 'link sent' or 'summary sent' with HTTP 200.
C4_StoreFailureSendsFailureNotice ==
    /\ (Answered /\ LinkRequest /\ StoreFailed) =>
           /\ SentTexts = <<MsgLinkFailed>>
           /\ resp = Response(200, "status", "link sent", None)
    /\ (Answered /\ SummaryRequest /\ StoreFailed) =>
           /\ SentTexts = <<MsgSummaryFailed>>
           /\ resp = Response(200, "status", "summary sent", None)

-----------------------------------------------------------------------------
(* C5 *)

\* the trimmed body of a complete payload
ReqBody == strip(req.data.body[2])

\* the row r is what a data-entry message with an urgency leaves: its body
\* mentions neither link nor summary and its urgency is the leftmost token
\* of its body
RowOfDataEntry(r) ==
    /\ ~Contains(lower(r[3]), <<"l", "i", "n", "k">>)
    /\ ~Contains(lower(r[3]), <<"s", "u", "m", "m", "a", "r", "y">>)
    /\ HasToken(r[3])
    /\ IsLeftmostToken(r[3], r[4])

\* C5: every row of the store has 4 fields and an integer urgency in 1..10;
\* a step that changes the store adds one row at the end, leaves the rows
\* before it as they were, and the new row is that of a data-entry message
\* whose body holds the urgency stored; when the step is the store step of
\* the request followed, that request is the data-entry request and the
\* row holds its trimmed body.
C5_StoreAppendOnly ==
    /\ [](\A i \in 1..Len(rows) :
              /\ Len(rows[i]) = 4
              /\ rows[i][4] \in 1..10)
    /\ [][rows' # rows =>
              /\ Len(rows') = Len(rows) + 1
              /\ SubSeq(rows', 1, Len(rows)) = rows
              /\ RowOfDataEntry(rows'[Len(rows')])
              /\ ~RespondStep
              /\ StoreStep =>
                     /\ DataEntryRequest'
                     /\ rows'[Len(rows')][3] = ReqBody']_vars

\* two different rows are in the store and the request answered last,
\* after both were appended, met a store failure
C5_Witness ==
    /\ Len(rows) = 2
    /\ rows[1][4] # rows[2][4]
    /\ Answered
    /\ WebhookHandled
    /\ StoreFailed

-----------------------------------------------------------------------------
(* C6 *)

\* C6: a body with "link" in it is answered as a link request and a body
\* with "summary" but not "link" as a summary request, whatever else the
\* body holds; neither parses an urgency nor, in either of its steps,
\* appends a row.
C6_ClassificationOrder ==
    /\ []((Answered /\ LinkRequest) =>
              /\ resp = Response(200, "status", "link sent", None)
              /\ SentTexts \in {<<"Health Log Link: " \o SheetUrl>>,
                                <<MsgLinkFailed>>}
              /\ parsed = <<>>
              /\ CallCount("append_row") = 0)
    /\ []((Answered /\ SummaryRequest) =>
              /\ resp = Response(200, "status", "summary sent", None)
              /\ Len(sent) = 1
              /\ parsed = <<>>
              /\ CallCount("append_row") = 0)
    /\ [][rows' = rows \/ ~(StoreStep \/ RespondStep)
              \/ ~(LinkRequest' \/ SummaryRequest')]_vars

\* "summary link 7" was answered as a link request
C6_Witness ==
    /\ Answered
    /\ LinkRequest
    /\ MentionsSummary
    /\ HasToken(ReqBody)
    /\ resp.value = "link sent"

-----------------------------------------------------------------------------
(* C7 *)

AppendSucceeded ==
    \E i \in 1..Len(calls) : calls[i].api = "append_row" /\ calls[i].ok

\* C7: a data-entry request whose body holds urgency N, with every store
\* call going through, is answered {status: logged, urgency: N} after
\* exactly one append_row call and exactly one SMS send attempt, the
\* acknowledgement for the sender, and the store holds the row [date, time,
\* trimmed body, N]; its store step adds exactly that row at the end of the
\* store and its respond step adds none.
C7_DataEntryLogged ==
    /\ []((Answered /\ StoreWorked /\ DataEntryRequest /\ HasToken(ReqBody))
              => \E N \in 1..10, now \in Timestamps :
                  /\ resp = Response(200, "status", "logged", Some(N))
                  /\ \E i \in 1..Len(rows) :
                         rows[i] = <<now[1], now[2], ReqBody, N>>
                  /\ CallCount("append_row") = 1
                  /\ AppendSucceeded
                  /\ SentTexts = <<"Logged for " \o SenderText
                                       \o ". (U+2705)">>
                  /\ IsLeftmostToken(ReqBody, N))
    /\ [][(StoreStep /\ AppendSucceeded') =>
              \E now \in Timestamps :
                  rows' = Append(rows, <<now[1], now[2], ReqBody',
                                         parsed'[1][1]>>)]_vars
    /\ [][RespondStep => rows' = rows]_vars

\* "\f7(U+00A0)" was logged as urgency 7 with the trimmed body, and by the
\* time it was answered another thread had appended a later row
C7_Witness ==
    /\ Answered
    /\ DataEntryRequest
    /\ resp = Response(200, "status", "logged", Some(7))
    /\ req.data.body = JStr(<<"\f", "7", "U+00A0">>)
    /\ Len(rows) = 2
    /\ rows[1][3] = <<"7">>
    /\ rows[1][4] = 7
    /\ rows[2][4] = 10
    /\ Len(sent) = 1

-----------------------------------------------------------------------------
(* C9 *)

\* C9: a webhook payload without sender or without body is answered 400
\* Invalid payload; no SMS send is attempted, no store call is made and
\* neither of its steps changes the store.
C9_InvalidPayloadRejected ==
    /\ []((Answered /\ WebhookHandled /\ PayloadIncomplete) =>
              /\ resp = Response(400, "error", "Invalid payload", None)
              /\ sent = <<>>
              /\ calls = <<>>
              /\ parsed = <<>>)
    /\ [][rows' = rows \/ ~(StoreStep \/ RespondStep)
              \/ ~(WebhookHandled' /\ PayloadIncomplete')]_vars

\* a payload with a body but no sender was refused while the store held rows
C9_Witness ==
    /\ Answered
    /\ WebhookHandled
    /\ req.data.sender = Absent
    /\ req.data.body # Absent
    /\ resp.code = 400
    /\ rows # <<>>

-----------------------------------------------------------------------------
(* C10 *)

\* C10: for a data-entry request whose body holds an urgency the response
\* is {status: logged} exactly when append_row went through; otherwise
\* neither of its steps changes the store, append_row was tried at most
\* once, the one SMS send attempt is the failure notice and the response is
\* 500 Failed to log entry.
C10_LoggedIffAppended ==
    /\ []((Answered /\ DataEntryRequest /\ HasToken(ReqBody)) =>
              /\ (resp.key = "status" /\ resp.value = "logged")
                     <=> AppendSucceeded
              /\ ~AppendSucceeded =>
                     /\ SentTexts = <<"Failed to log entry for "
                                        \o SenderText \o ". (U+274C)">>
                     /\ CallCount("append_row") <= 1
                     /\ resp = Response(500, "error", "Failed to log entry",
                                        None))
    /\ [][rows' = rows \/ ~(StoreStep \/ RespondStep)
              \/ ~(DataEntryRequest' /\ HasToken(ReqBody') /\ ~AppendSucceeded')
         ]_vars

\* append_row was tried once and failed, and the request failed with 500
C10_Witness ==
    /\ Answered
    /\ DataEntryRequest
    /\ HasToken(ReqBody)
    /\ CallCount("append_row") = 1
    /\ ~AppendSucceeded
    /\ resp.code = 500
    /\ Len(sent) = 1

====
